---------------------------- MODULE Spec2Model ----------------------------
(***************************************************************************)
(* A model of coordinates.py: CoordinateFormatter (DD <-> DMS conversion)  *)
(* and CoordinateTransformer (a facade over a CRS transformation engine).  *)
(*                                                                         *)
(* Numbers.  Python floats are modelled by exact fixed-point arithmetic.   *)
(* A decimal-degree value is a record [deg, frac]: deg whole degrees and   *)
(* frac a count of units of 1/DegUnit degree, both of the sign of the      *)
(* value (the value is deg + frac/DegUnit, |frac| < DegUnit).  One unit is *)
(* 1/Sub of the last printed digit of the seconds, so that inputs between  *)
(* two printable values, and exact ties, exist.  The split keeps every     *)
(* intermediate value inside TLC's 32-bit integers.  Rounding is to the    *)
(* nearest, exact ties to even, as format() and round() treat the value    *)
(* they are given; a float that only approximates a decimal tie falls on   *)
(* one side of it, which the properties below do not depend on.            *)
(*                                                                         *)
(* Strings are sequences of one-character strings.                         *)
(***************************************************************************)
EXTENDS Integers, Sequences, FiniteSets, TLC

VARIABLES
    call,          \* the operations applied so far, in order
    coordinate,    \* the DD argument of the formatter call (or NoDD)
    dms_coord,     \* the DMS string: a caller's input, or the formatter's result
    fmt_status,    \* "none" | "ok" | "AssertionError": how the formatter call ended
    dd_coord,      \* the result record of dms_to_dd (or NoResult)
    transformer,   \* CoordinateTransformer.transformer: the bound context
    coordinates,   \* the argument of the last transform call
    transformed    \* the result of the last transform call

vars == <<call, coordinate, dms_coord, fmt_status, dd_coord,
          transformer, coordinates, transformed>>

-----------------------------------------------------------------------------
(* Resolution of the fixed-point grid *)

\* units per 1e-SecDecimals arc second (the input grid is finer than the print)
Sub == 4

\* f"{seconds:.5f}"
SecDecimals == 5

\* round(..., 5)
DdDecimals == 5

RECURSIVE Pow10(_)
Pow10(n) == IF n = 0 THEN 1 ELSE 10 * Pow10(n - 1)

SecUnit == Pow10(SecDecimals) * Sub      \* units per arc second
MinUnit == 60 * SecUnit                  \* units per arc minute
DegUnit == 60 * MinUnit                  \* units per degree
Dd5Unit == DegUnit \div Pow10(DdDecimals) \* units per 1e-DdDecimals degree

Abs(n) == IF n < 0 THEN -n ELSE n

\* "no DD argument": no DD value, whose frac is below DegUnit in magnitude
NoDD == [deg |-> 0, frac |-> DegUnit]
NoResult == [status |-> "none", msg |-> "", value |-> 0]

-----------------------------------------------------------------------------
(* Python numerics on the fixed-point representation *)

\* a faulty int(x): math.floor(x)
PyInt_Floor(x) == IF x.frac < 0 THEN x.deg - 1 ELSE x.deg

\* int(x): truncation toward zero
PyInt(x) == x.deg

\* abs(x)
PyAbs(x) == [deg |-> Abs(x.deg), frac |-> Abs(x.frac)]

\* x % 1 for x >= 0, in units
Mod1(x) == x.frac

\* a faulty x > 0: x >= 0
Positive_OrZero(x) == x.deg > 0 \/ (x.deg = 0 /\ x.frac >= 0)

\* x > 0
Positive(x) == x.deg > 0 \/ x.frac > 0

\* lo <= x <= hi for whole degrees lo, hi
Between(lo, x, hi) ==
    /\ (x.deg > lo \/ (x.deg = lo /\ x.frac >= 0))
    /\ (x.deg < hi \/ (x.deg = hi /\ x.frac <= 0))

\* n / unit rounded to the nearest integer, ties to even (format and round())
RoundHalfEven(n, unit) ==
    LET q == n \div unit
        r == n % unit
    IN  IF 2 * r > unit \/ (2 * r = unit /\ q % 2 = 1) THEN q + 1 ELSE q

-----------------------------------------------------------------------------
(* Characters and decimal text *)

DigitChars == <<"0", "1", "2", "3", "4", "5", "6", "7", "8", "9">>
Digit == {DigitChars[i] : i \in 1..10}
DigitVal(c) == (CHOOSE i \in 1..10 : DigitChars[i] = c) - 1

\* str(n) / f"{n}" for an integer n >= 0
RECURSIVE IntToStr(_)
IntToStr(n) ==
    IF n < 10 THEN <<DigitChars[n + 1]>>
    ELSE Append(IntToStr(n \div 10), DigitChars[(n % 10) + 1])

\* the last k decimal digits of n, zero padded
RECURSIVE PadDigits(_, _)
PadDigits(n, k) ==
    IF k = 0 THEN <<>>
    ELSE Append(PadDigits(n \div 10, k - 1), DigitChars[(n % 10) + 1])

\* f"{x:.5f}" for x >= 0 given in units of 1/SecUnit
FormatFixed(x) ==
    LET q == RoundHalfEven(x, Sub)
    IN  IntToStr(q \div Pow10(SecDecimals)) \o <<".">>
            \o PadDigits(q % Pow10(SecDecimals), SecDecimals)

\* the value of a string of digits
RECURSIVE DigitsVal(_)
DigitsVal(s) ==
    IF s = <<>> THEN 0
    ELSE 10 * DigitsVal(SubSeq(s, 1, Len(s) - 1)) + DigitVal(s[Len(s)])

-----------------------------------------------------------------------------
(* CoordinateFormatter.dd_to_dms *)

dd_to_dms(c) ==
    LET degrees == Abs(PyInt(c))
        minutes == Mod1(PyAbs(c))          \* (abs(c) % 1) * 60, in units
        seconds == minutes % MinUnit       \* (minutes % 1) * 60, in units
    IN  IntToStr(degrees) \o <<"°">>
            \o IntToStr(minutes \div MinUnit) \o <<"'">>
            \o FormatFixed(seconds) \o <<"\"">>

londd_to_londms(c) ==
    IF ~Between(-180, c, 180)
    THEN [status |-> "AssertionError", value |-> <<>>]
    ELSE LET direction == IF Positive(c) THEN "E" ELSE "W"
         IN  [status |-> "ok", value |-> Append(dd_to_dms(c), direction)]

\* a faulty latdd_to_latdms: the longitude bounds
latdd_to_latdms_LonBounds(c) ==
    IF ~Between(-180, c, 180)
    THEN [status |-> "AssertionError", value |-> <<>>]
    ELSE LET direction == IF Positive(c) THEN "N" ELSE "S"
         IN  [status |-> "ok", value |-> Append(dd_to_dms(c), direction)]

latdd_to_latdms(c) ==
    IF ~Between(-90, c, 90)
    THEN [status |-> "AssertionError", value |-> <<>>]
    ELSE LET direction == IF Positive(c) THEN "N" ELSE "S"
         IN  [status |-> "ok", value |-> Append(dd_to_dms(c), direction)]

-----------------------------------------------------------------------------
(* The regular expression of dms_to_dd, matched as re.search matches it *)

\* \s, as far as the modelled characters go
Whitespace == {" ", "\n", "\t"}

\* the characters input strings are built from
Chars == Digit \cup Whitespace
            \cup {"°", "d", "'", "´", "m", "\"", ".", "x", "N", "S", "E", "W", "O", "n"}

\* "." of a pattern without DOTALL: any character but a line break
AnyChar == Chars \ {"\n"}

\* an item takes lo..hi characters of cls; hi < 0 is no upper limit
Item(cls, lo, hi) == [cls |-> cls, lo |-> lo, hi |-> hi]

\* The pattern of dms_to_dd, item by item; groups 1 to 4 are items 1, 4-5,
\* 8-11 and 14.  "^" and "$" are in re_search and AtDollar.
pattern == <<
    Item(Digit, 1, 3),                         \*  1  \d{1,3}
    Item({"°"}, 1, 1),                         \*  2  °
    Item(Whitespace, 0, 1),                    \*  3  \s?
    Item({"0", "1", "2", "3", "4", "5"}, 0, 1),\*  4  [0-5]?
    Item(Digit, 1, 1),                         \*  5  [0-9]
    Item({"'", "´"}, 1, 1),                    \*  6  ['´]
    Item(Whitespace, 0, 1),                    \*  7  \s?
    Item({"0", "1", "2", "3", "4", "5"}, 0, 1),\*  8  [0-5]?
    Item(Digit, 1, 1),                         \*  9  [0-9]
    Item(AnyChar, 0, 1),                       \* 10  .?
    Item(Digit, 0, -1),                        \* 11  \d, any number
    Item({"\""}, 1, 1),                        \* 12  the double quote
    Item(Whitespace, 0, 1),                    \* 13  \s?
    Item({"N", "S", "E", "W", "O"}, 1, 1) >>   \* 14  [NSEWO]

\* "$" without MULTILINE: at the end, or just before a line break that ends
\* the string
AtDollar(s, p) == p = Len(s) \/ (p = Len(s) - 1 /\ s[Len(s)] = "\n")

\* How many characters item it may take at position p (p characters consumed)
Takes(it, s, p) ==
    LET most == IF it.hi < 0 \/ it.hi > Len(s) - p
                THEN Len(s) - p ELSE it.hi
    IN  {k \in it.lo..most : \A j \in 1..k : s[p + j] \in it.cls}

\* Every way items i.. of pat match s from position p up to the end: the set
\* of the sequences of positions reached after each item.  The end is "$"
\* when dollar holds, and the very end of s otherwise.
RECURSIVE Matches(_, _, _, _, _)
Matches(pat, dollar, s, i, p) ==
    IF i > Len(pat)
    THEN IF (IF dollar THEN AtDollar(s, p) ELSE p = Len(s)) THEN {<<>>} ELSE {}
    ELSE UNION { { <<p + k>> \o rest : rest \in Matches(pat, dollar, s, i + 1, p + k) }
                 : k \in Takes(pat[i], s, p) }

\* re.search(pattern, coordinate): "^" anchors the one attempt at position 0
re_search(s) == Matches(pattern, TRUE, s, 1, 0)

\* match.group(n), from the positions b of a match
Group1(s, b) == SubSeq(s, 1, b[1])
Group2(s, b) == SubSeq(s, b[3] + 1, b[5])
Group3(s, b) == SubSeq(s, b[7] + 1, b[11])
Group4(s, b) == SubSeq(s, b[13] + 1, b[14])

-----------------------------------------------------------------------------
(* float() of a string, as far as the modelled characters go *)

RECURSIVE Strip(_)
Strip(s) ==
    IF s # <<>> /\ s[1] \in Whitespace THEN Strip(Tail(s))
    ELSE IF s # <<>> /\ s[Len(s)] \in Whitespace THEN Strip(SubSeq(s, 1, Len(s) - 1))
    ELSE s

AllDigits(s) == \A j \in 1..Len(s) : s[j] \in Digit

\* the number of digits s starts with
RECURSIVE LeadDigits(_)
LeadDigits(s) ==
    IF s # <<>> /\ s[1] \in Digit THEN 1 + LeadDigits(Tail(s)) ELSE 0

\* float(s): [ok, whole, frac], the value being whole + frac/SecUnit.
\* Digits, optionally a point, digits; at least one digit; blanks around it
\* are stripped.  (Exponents, signs, underscores, inf and nan are not among
\* the modelled characters.)
PyFloat(s) ==
    LET t == Strip(s)
        n == LeadDigits(t)
        rest == SubSeq(t, n + 1, Len(t))
        fracDigits == IF rest = <<>> THEN <<>> ELSE Tail(rest)
        ok == /\ t # <<>>
              /\ rest # <<>> => (rest[1] = "." /\ AllDigits(fracDigits))
              /\ n + Len(fracDigits) >= 1
    IN  IF ~ok THEN [ok |-> FALSE, whole |-> 0, frac |-> 0]
        ELSE [ok |-> TRUE,
              whole |-> DigitsVal(SubSeq(t, 1, n)),
              frac |-> DigitsVal(fracDigits)
                          * (SecUnit \div Pow10(Len(fracDigits)))]

-----------------------------------------------------------------------------
(* CoordinateFormatter.dms_to_dd *)

\* a + b for a, b >= 0 in the [deg, frac] representation
Plus(a, b) ==
    IF a.frac >= DegUnit - b.frac
    THEN [deg |-> a.deg + b.deg + 1, frac |-> a.frac - (DegUnit - b.frac)]
    ELSE [deg |-> a.deg + b.deg, frac |-> a.frac + b.frac]

\* a faulty round(x, 5): truncation
Round5_Truncate(x) == x.deg * Pow10(DdDecimals) + x.frac \div Dd5Unit

\* round(x, 5) for x >= 0, as a count of 1e-5 degrees
Round5(x) == x.deg * Pow10(DdDecimals) + RoundHalfEven(x.frac, Dd5Unit)

\* a faulty sign: O taken for east
Signed_OEast(direction, dd) == IF direction \in {"N", "E", "O"} THEN dd ELSE -dd

\* "N", "E" are positive, everything else negative
Signed(direction, dd) == IF direction \in {"N", "E"} THEN dd ELSE -dd

dms_to_dd(s) ==
    LET found == re_search(s)
    IN  IF found = {}
        THEN [status |-> "ValueError", msg |-> "Invalid coordinate format!", value |-> 0]
        ELSE LET match == CHOOSE b \in found : TRUE
                 degrees == Group1(s, match)
                 minutes == Group2(s, match)
                 seconds == Group3(s, match)
                 direction == Group4(s, match)[1]
                 sec == PyFloat(seconds)
             IN  IF ~sec.ok
                 THEN [status |-> "ValueError",
                       msg |-> "could not convert string to float", value |-> 0]
                 ELSE LET d == [deg |-> DigitsVal(degrees), frac |-> 0]
                          m == [deg |-> 0, frac |-> DigitsVal(minutes) * MinUnit]
                          f == [deg |-> sec.whole \div 3600,
                                frac |-> (sec.whole % 3600) * SecUnit + sec.frac]
                      IN  [status |-> "ok", msg |-> "",
                           value |-> Signed(direction, Round5(Plus(Plus(d, m), f)))]

-----------------------------------------------------------------------------
(* The inputs *)

\* DD inputs lie within MaxEps units of a whole second
MaxEps == 3

\* a run of blanks in a DMS input is at most this long
MaxSpaces == 1

\* the seconds fields tried exhaustively are at most this long
MaxSecLen == 3

\* n * 1e-7 degree, in units (0 <= n < 10^7)
Decimal7(n) == n * (DegUnit \div Pow10(7))

Degs == {0, 1, 34, 89, 90, 95, 112, 179, 180, 181}

Fracs ==
    { f \in { mb * MinUnit + sb * SecUnit + e :
                mb \in {0, 7, 44, 59, 60}, sb \in {0, 12}, e \in -MaxEps..MaxEps } :
        0 <= f /\ f < DegUnit }
    \cup {Decimal7(7393611), Decimal7(1200000)}

DDInputs == { [deg |-> sgn * d, frac |-> sgn * f] : sgn \in {1, -1}, d \in Degs, f \in Fracs }

RECURSIVE Cat(_)
Cat(parts) == IF parts = <<>> THEN <<>> ELSE Head(parts) \o Cat(Tail(parts))

Blank(k) == [i \in 1..k |-> " "]
Blanks == { Blank(k) : k \in 0..MaxSpaces }

\* every string over alphabet of length 0..n
RECURSIVE Strings(_, _)
Strings(alphabet, n) ==
    IF n = 0 THEN {<<>>}
    ELSE LET shorter == Strings(alphabet, n - 1)
         IN  shorter \cup { Append(s, c) : s \in shorter, c \in alphabet }

\* 68°01'38.44"W in every layout: text before and after, markers, blanks, letter
LayoutInputs ==
    { Cat(<<pre, <<"6", "8">>, dmark, sp1, <<"0", "1">>, mmark, sp2,
            <<"3", "8", ".", "4", "4", "\"">>, sp3, hemi, post>>) :
        pre \in {<<>>, <<" ">>, <<"\n">>, <<"x">>},
        dmark \in {<<"°">>, <<"d">>},
        sp1 \in Blanks,
        mmark \in {<<"'">>, <<"´">>, <<"m">>},
        sp2 \in Blanks,
        sp3 \in Blanks,
        hemi \in {<<"N">>, <<"S">>, <<"E">>, <<"W">>, <<"O">>, <<"n">>, <<>>},
        post \in {<<>>, <<"\n">>, <<" ">>, <<"x">>, <<"\n", "\n">>} }

\* the numeric fields, in the compact layout
FieldInputs ==
    { Cat(<<deg, <<"°">>, min, <<"'">>, sec, <<"\"">>, hemi>>) :
        deg \in {<<>>, <<"0">>, <<"3", "3">>, <<"1", "7", "9">>, <<"9", "9", "9">>,
                 <<"1", "2", "3", "4">>},
        min \in {<<>>, <<"0">>, <<"0", "1">>, <<"4", "1">>, <<"5", "9">>, <<"6", "0">>,
                 <<"1", "2", "3">>},
        sec \in {<<"0">>, <<"1", "2", ".", "2">>, <<"0", "8", ".", "4", "4">>,
                 <<"5", "9", ".", "9", "9", "9", "9", "9">>,
                 <<"6", "0", ".", "0", "0", "0", "0", "0">>},
        hemi \in {<<"N">>, <<"S">>, <<"E">>, <<"W">>, <<"O">>} }

\* every seconds field of up to MaxSecLen characters
SecondsInputs ==
    { Cat(<<<<"1", "0", "°", "1", "0", "'">>, sec, <<"\"">>, hemi>>) :
        sec \in Strings({"0", "5", "6", "9", ".", "x", " "}, MaxSecLen),
        hemi \in {<<"N">>, <<"W">>, <<"O">>} }

DmsInputs == LayoutInputs \cup FieldInputs \cup SecondsInputs

-----------------------------------------------------------------------------
(* The formatter: a caller applies one conversion to its input, and may    *)
(* feed a DMS string the formatter returned back into dms_to_dd.           *)

NoTransformer == [dx |-> 0, dy |-> 0, dz |-> 0, swap |-> FALSE, bound |-> FALSE]

Init ==
    /\ call = <<>>
    /\ fmt_status = "none"
    /\ dd_coord = NoResult
    /\ \/ coordinate \in DDInputs /\ dms_coord = <<>>
       \/ coordinate = NoDD /\ dms_coord \in DmsInputs
    /\ transformer = NoTransformer
    /\ coordinates = <<>>
    /\ transformed = <<>>

DdToDms ==
    /\ call = <<>>
    /\ coordinate # NoDD
    /\ call' = <<"dd_to_dms">>
    /\ fmt_status' = "ok"
    /\ dms_coord' = dd_to_dms(coordinate)
    /\ UNCHANGED <<coordinate, dd_coord, transformer, coordinates, transformed>>

LonddToLondms ==
    /\ call = <<>>
    /\ coordinate # NoDD
    /\ LET londms == londd_to_londms(coordinate)
       IN  /\ fmt_status' = londms.status
           /\ dms_coord' = londms.value
    /\ call' = <<"londd_to_londms">>
    /\ UNCHANGED <<coordinate, dd_coord, transformer, coordinates, transformed>>

LatddToLatdms ==
    /\ call = <<>>
    /\ coordinate # NoDD
    /\ LET latdms == latdd_to_latdms(coordinate)
       IN  /\ fmt_status' = latdms.status
           /\ dms_coord' = latdms.value
    /\ call' = <<"latdd_to_latdms">>
    /\ UNCHANGED <<coordinate, dd_coord, transformer, coordinates, transformed>>

DmsToDd ==
    /\ \/ call = <<>> /\ coordinate = NoDD
       \/ Len(call) = 1 /\ call[1] # "dms_to_dd" /\ fmt_status = "ok"
    /\ call' = Append(call, "dms_to_dd")
    /\ dd_coord' = dms_to_dd(dms_coord)
    /\ UNCHANGED <<coordinate, dms_coord, fmt_status, transformer, coordinates,
                   transformed>>

Next == DdToDms \/ LonddToLondms \/ LatddToLatdms \/ DmsToDd

Spec == Init /\ [][Next]_vars

\* Groups(s, b): the four groups of match b
Groups(s, b) == <<Group1(s, b), Group2(s, b), Group3(s, b), Group4(s, b)>>

\* However the items share out the characters, the groups are the same: the
\* match that re.search reports (the first in backtracking order) is any match
OneParse == call = <<>> => Cardinality({ Groups(dms_coord, b) : b \in re_search(dms_coord) }) <= 1

-----------------------------------------------------------------------------
(* CoordinateTransformer.  The engine (pyproj's Transformer) is outside    *)
(* the repository: it is modelled by its contract, a fixed map of one      *)
(* point applied to each point on its own, in single and in batch mode.    *)

\* a batch holds at most this many tuples
MaxBatch == 2

Ords == 0..1

\* the contexts a constructed transformer may hold (the first is the identity)
Contexts ==
    { [dx |-> d, dy |-> 2 * d, dz |-> 3 * d, swap |-> sw, bound |-> TRUE] :
        d \in {0, 1}, sw \in BOOLEAN }

\* the engine's single mode, Transformer.transform(x, y, z): a triple
EngineTransform(ctx, x, y, z) ==
    IF ctx.swap THEN <<y + ctx.dx, x + ctx.dy, z + ctx.dz>>
    ELSE <<x + ctx.dx, y + ctx.dy, z + ctx.dz>>

\* the engine's batch mode, Transformer.itransform(points): each point through
\* the same map, a pair for a pair (its height taken as 0) and a triple for a
\* triple, in the order given
EngineItransform(ctx, points) ==
    [ i \in 1..Len(points) |->
        LET pt == points[i]
            z == IF Len(pt) = 3 THEN pt[3] ELSE 0
        IN  SubSeq(EngineTransform(ctx, pt[1], pt[2], z), 1, Len(pt)) ]

\* a faulty transform_coordinates: the rows in reverse
transform_coordinates_Reversed(self, coords) ==
    LET rows == EngineItransform(self, coords)
    IN  [ i \in 1..Len(rows) |-> rows[Len(rows) + 1 - i] ]

\* np.array(list(self.transformer.itransform(coordinates))): the rows in order
transform_coordinates(self, coords) == EngineItransform(self, coords)

\* self.transformer.transform(x, y, z)
transform_pair(self, x, y, z) == EngineTransform(self, x, y, z)

\* the batches: 1..MaxBatch tuples, all pairs or all triples
RECURSIVE SeqsUpTo(_, _)
SeqsUpTo(S, n) ==
    IF n = 0 THEN {<<>>}
    ELSE LET shorter == SeqsUpTo(S, n - 1)
         IN  shorter \cup { Append(s, e) : s \in { q \in shorter : Len(q) = n - 1 }, e \in S }

Pairs == { <<x, y>> : x \in Ords, y \in Ords }
Triples == { <<x, y, z>> : x \in Ords, y \in Ords, z \in Ords }
Batches == (SeqsUpTo(Pairs, MaxBatch) \cup SeqsUpTo(Triples, MaxBatch)) \ {<<>>}

\* the state after CoordinateTransformer.__init__
InitTransformer ==
    /\ call = <<>>
    /\ coordinate = NoDD
    /\ dms_coord = <<>>
    /\ fmt_status = "none"
    /\ dd_coord = NoResult
    /\ transformer \in Contexts
    /\ coordinates = <<>>
    /\ transformed = <<>>

TransformCoordinates ==
    /\ transformer.bound
    /\ \E coords \in Batches :
        /\ coordinates' = coords
        /\ transformed' = transform_coordinates(transformer, coords)
    /\ call' = <<"transform_coordinates">>
    /\ UNCHANGED <<coordinate, dms_coord, fmt_status, dd_coord, transformer>>

\* transform_pair(x, y) and transform_pair(x, y, z): z defaults to 0
TransformPair ==
    /\ transformer.bound
    /\ \E pt \in Pairs \cup Triples :
        /\ coordinates' = pt
        /\ transformed' = transform_pair(transformer, pt[1], pt[2],
                                         IF Len(pt) = 3 THEN pt[3] ELSE 0)
    /\ call' = <<"transform_pair">>
    /\ UNCHANGED <<coordinate, dms_coord, fmt_status, dd_coord, transformer>>

NextTransformer == TransformCoordinates \/ TransformPair

SpecTransformer == InitTransformer /\ [][NextTransformer]_vars

-----------------------------------------------------------------------------
(* What the properties below speak of *)

Formatted(op) == Len(call) >= 1 /\ call[1] = op
Parsed == call # <<>> /\ call[Len(call)] = "dms_to_dd"
ParsedInput == call = <<"dms_to_dd">>
RoundTripped ==
    Len(call) = 2 /\ call[1] \in {"latdd_to_latdms", "londd_to_londms"} /\ Parsed

\* |value - c| <= 1e-5 degree, value a count of 1e-5 degrees and c a DD value
Within1e5(value, c) ==
    LET k == value - c.deg * Pow10(DdDecimals)
    IN  /\ Abs(k) <= Pow10(DdDecimals) + 1
        /\ Abs(k * Dd5Unit - c.frac) <= Dd5Unit

\* The grammar of a DMS string as it is documented: 1-3 digits, the degree
\* sign, an optional blank, minutes 0-59, ' or ´, an optional blank, seconds,
\* the double quote, an optional blank, one of N S E W O, and nothing else
grammar == [pattern EXCEPT ![10] = Item({"."}, 0, 1)]

\* seconds: one or two digits (below 60), then possibly a point and digits
WellFormedSeconds(g) ==
    LET n == LeadDigits(g)
    IN  /\ n \in 1..2
        /\ n = 2 => g[1] \in {"0", "1", "2", "3", "4", "5"}
        /\ Len(g) > n => (g[n + 1] = "." /\ AllDigits(SubSeq(g, n + 2, Len(g))))

InGrammar(s) ==
    \E b \in Matches(grammar, FALSE, s, 1, 0) : WellFormedSeconds(Group3(s, b))

\* the shape of a formatted string: D°M'S.sssss" and a letter among letters
OutputShape(letters) == <<
    Item(Digit, 1, -1), Item({"°"}, 1, 1),
    Item(Digit, 1, -1), Item({"'"}, 1, 1),
    Item(Digit, 1, -1), Item({"."}, 1, 1), Item(Digit, SecDecimals, SecDecimals),
    Item({"\""}, 1, 1), Item(letters, IF letters = {} THEN 0 ELSE 1, 1) >>

Shaped(s, letters) == Matches(OutputShape(letters), FALSE, s, 1, 0)

\* the fields printed in s, b being its one match of the shape
PrintedDegrees(s, b) == DigitsVal(SubSeq(s, 1, b[1]))
PrintedMinutes(s, b) == DigitsVal(SubSeq(s, b[2] + 1, b[3]))
PrintedSecondsWhole(s, b) == DigitsVal(SubSeq(s, b[4] + 1, b[5]))
PrintedSeconds(s, b) ==           \* in 1e-5 second
    PrintedSecondsWhole(s, b) * Pow10(SecDecimals) + DigitsVal(SubSeq(s, b[6] + 1, b[7]))

Neg(c) == [deg |-> -c.deg, frac |-> -c.frac]
InDomain(c, limit) == Abs(c.deg) < limit \/ (Abs(c.deg) = limit /\ c.frac = 0)

Str_34_44_21_69996 ==
    <<"3", "4", "°", "4", "4", "'", "2", "1", ".", "6", "9", "9", "9", "6", "\"">>
Str_112_7_12 ==
    <<"1", "1", "2", "°", "7", "'", "1", "2", ".", "0", "0", "0", "0", "0", "\"">>
Str_33_41_12_2_S == <<"3", "3", "°", "4", "1", "'", "1", "2", ".", "2", "\"", "S">>

-----------------------------------------------------------------------------
(* The properties *)

\* C1: a DD value in the domain, formatted by latdd_to_latdms or
\* londd_to_londms and parsed back by dms_to_dd, comes back as a number
\* within 1e-5 degree of the value.
C1_RoundTrip ==
    RoundTripped =>
        /\ dd_coord.status = "ok"
        /\ Within1e5(dd_coord.value, coordinate)

\* C2: dms_to_dd fails with ValueError on every string that is not in the
\* documented grammar.
C2_RejectsOutsideGrammar ==
    (ParsedInput /\ ~InGrammar(dms_coord)) => dd_coord.status = "ValueError"

\* C3: every string dms_to_dd accepts has a well-formed seconds field below
\* 60: one or two digits, then possibly a point and digits.
C3_AcceptedSecondsWellFormed ==
    (ParsedInput /\ dd_coord.status = "ok") =>
        \A b \in re_search(dms_coord) : WellFormedSeconds(Group3(dms_coord, b))

\* C4: for an accepted string with fields d, m, s and letter h, the result
\* is d + m/60 + s/3600 rounded to the nearest 1e-5 degree, taken positive
\* for N and E and negative for S, W and O; 33°41'12.2"S gives -33.68672.
C4_ValueAndSign ==
    (Parsed /\ dd_coord.status = "ok") =>
        \A b \in re_search(dms_coord) :
            LET d == DigitsVal(Group1(dms_coord, b))
                m == DigitsVal(Group2(dms_coord, b))
                s == PyFloat(Group3(dms_coord, b))
                h == Group4(dms_coord, b)[1]
                \* d + m/60 + s/3600 = wholeDeg + rest/DegUnit, rest < 2*DegUnit
                wholeDeg == d + s.whole \div 3600
                restMin == m * MinUnit
                restSec == (s.whole % 3600) * SecUnit + s.frac
                carry == IF restMin >= DegUnit - restSec THEN 1 ELSE 0
                rest == IF carry = 1 THEN restMin - (DegUnit - restSec)
                        ELSE restMin + restSec
                r == Abs(dd_coord.value)
                k == r - (wholeDeg + carry) * Pow10(DdDecimals)
            IN  /\ k \in 0..Pow10(DdDecimals)
                /\ 2 * Abs(k * Dd5Unit - rest) <= Dd5Unit
                /\ h \in {"N", "E"} => dd_coord.value = r
                /\ h \in {"S", "W", "O"} => dd_coord.value = -r
                /\ dms_coord = Str_33_41_12_2_S => dd_coord.value = -3368672

C4_Witness ==
    /\ Parsed
    /\ dms_coord = Str_33_41_12_2_S
    /\ dd_coord = [status |-> "ok", msg |-> "", value |-> -3368672]

\* the string s with its last character replaced by c
WithLast(s, c) == Append(SubSeq(s, 1, Len(s) - 1), c)

\* C5: two strings that differ only in ending in O or in W have the same
\* outcome: both fail, or both give the same number.
C5_OWEquivalence ==
    (Parsed /\ dms_coord # <<>>) =>
        /\ dms_coord[Len(dms_coord)] = "O" => dd_coord = dms_to_dd(WithLast(dms_coord, "W"))
        /\ dms_coord[Len(dms_coord)] = "W" => dd_coord = dms_to_dd(WithLast(dms_coord, "O"))

C5_Witness ==
    /\ ParsedInput
    /\ dms_coord[Len(dms_coord)] = "O"
    /\ dd_coord.status = "ok"
    /\ dd_coord.value < 0

\* C6: latdd_to_latdms fails with AssertionError and returns no string
\* exactly when the coordinate is below -90 or above 90, londd_to_londms
\* exactly when it is below -180 or above 180; on the end points both succeed.
C6_DomainPrecondition ==
    /\ Formatted("latdd_to_latdms") =>
        /\ fmt_status = "AssertionError" <=> ~InDomain(coordinate, 90)
        /\ fmt_status = "ok" <=> InDomain(coordinate, 90)
        /\ fmt_status = "AssertionError" => dms_coord = <<>>
    /\ Formatted("londd_to_londms") =>
        /\ fmt_status = "AssertionError" <=> ~InDomain(coordinate, 180)
        /\ fmt_status = "ok" <=> InDomain(coordinate, 180)
        /\ fmt_status = "AssertionError" => dms_coord = <<>>

C6_Witness ==
    /\ Formatted("latdd_to_latdms")
    /\ coordinate = [deg |-> 95, frac |-> 0]
    /\ fmt_status = "AssertionError"
    /\ dms_coord = <<>>

\* C7: for a coordinate in the domain, latdd_to_latdms returns dd_to_dms of
\* it followed by N when it is above 0 and by S otherwise, londd_to_londms
\* by E when above 0 and by W otherwise; 0 gives S and W.
C7_HemisphereLetter ==
    LET above == coordinate.deg > 0 \/ coordinate.frac > 0
    IN  /\ (Formatted("latdd_to_latdms") /\ fmt_status = "ok") =>
              dms_coord = dd_to_dms(coordinate) \o (IF above THEN <<"N">> ELSE <<"S">>)
        /\ (Formatted("londd_to_londms") /\ fmt_status = "ok") =>
              dms_coord = dd_to_dms(coordinate) \o (IF above THEN <<"E">> ELSE <<"W">>)

C7_Witness ==
    /\ Formatted("latdd_to_latdms")
    /\ coordinate = [deg |-> 0, frac |-> 0]
    /\ dms_coord = <<"0", "°", "0", "'", "0", ".", "0", "0", "0", "0", "0", "\"", "S">>

\* C8: a string latdd_to_latdms or londd_to_londms returns has the shape
\* D°M'S"H without a sign, D at most 90 (180), M in 0..59 and S printed with
\* 5 decimals and below 60.
C8_OutputForm ==
    \A op \in {"latdd_to_latdms", "londd_to_londms"} :
        (Formatted(op) /\ fmt_status = "ok") =>
            LET letters == IF op = "latdd_to_latdms" THEN {"N", "S"} ELSE {"E", "W"}
                limit == IF op = "latdd_to_latdms" THEN 90 ELSE 180
                shaped == Shaped(dms_coord, letters)
            IN  /\ shaped # {}
                /\ \A b \in shaped :
                    /\ PrintedDegrees(dms_coord, b) <= limit
                    /\ PrintedMinutes(dms_coord, b) <= 59
                    /\ PrintedSecondsWhole(dms_coord, b) < 60

\* C10: dd_to_dms prints floor(|c|) degrees, the whole minutes of the
\* fraction of |c|, and the remaining seconds to the nearest 1e-5, as
\* D°M'S" without a letter; the result is that of -c;
\* -34.7393611 gives 34°44'21.69996" and 112.12 gives 112°7'12.00000".
C10_Fragment ==
    Formatted("dd_to_dms") =>
        LET shaped == Shaped(dms_coord, {})
            a == IF coordinate.deg < 0 \/ coordinate.frac < 0 THEN Neg(coordinate)
                 ELSE coordinate
        IN  /\ Cardinality(shaped) = 1
            /\ \A b \in shaped :
                /\ PrintedDegrees(dms_coord, b) = a.deg
                /\ PrintedMinutes(dms_coord, b) = a.frac \div MinUnit
                /\ 2 * Abs(PrintedSeconds(dms_coord, b) * Sub - (a.frac % MinUnit)) <= Sub
            /\ dms_coord = dd_to_dms(Neg(coordinate))
            /\ a = [deg |-> 34, frac |-> Decimal7(7393611)] => dms_coord = Str_34_44_21_69996
            /\ a = [deg |-> 112, frac |-> Decimal7(1200000)] => dms_coord = Str_112_7_12

C10_Witness ==
    /\ Formatted("dd_to_dms")
    /\ coordinate = [deg |-> -34, frac |-> -Decimal7(7393611)]
    /\ dms_coord = Str_34_44_21_69996

\* the height transform_pair is called with for tuple pt
HeightOf(pt) == IF Len(pt) = 3 THEN pt[3] ELSE 0

=============================================================================
